---- MODULE Spec2Model ----
(***************************************************************************)
(* State-machine model of the SoroSusu contract (src/src/lib.rs).          *)
(*                                                                         *)
(* The contract keeps, in instance storage, one Circle record per circle   *)
(* id and a CircleCount counter.  Every entry point is one invocation: it  *)
(* either runs to its end and persists its writes and events, or panics    *)
(* (panic_with_error!, a failed require_auth) and the host rolls back the  *)
(* storage writes and the events of that invocation.                       *)
(*                                                                         *)
(* Each entry point is a pure operator from the stored state and the       *)
(* call's arguments to a result record                                     *)
(*   [err, line, circles, count, events, ret]                              *)
(* (err = "Ok" or the Error variant, line = source line of the panic, 0    *)
(* when none), and one action per entry point applies it.                  *)
(***************************************************************************)
EXTENDS Integers, Sequences, FiniteSets, TLC

VARIABLES
    circles,        \* instance storage, DataKey::Circle(id) -> Circle
    circle_count,   \* instance storage, DataKey::CircleCount (0 when unset)
    events,         \* events published by the most recent invocation
    last,           \* the most recent invocation: [op, id, err, line]
    ledger          \* the escrow ledger: [admin, last_active, balance, now, out]

vars == <<circles, circle_count, events, last, ledger>>

----------------------------------------------------------------------------
(* Program constant and bounds of the model *)

MAX_MEMBERS == 50

\* identities that call the contract during the run are 1..NumAddr
NumAddr == 3
\* create_circle is called while CircleCount < MaxCircles
MaxCircles == 1
\* rollover_group is called while cycle_number < MaxCycle
MaxCycle == 2
\* the width in bits of the CircleCount counter in the model (a u32, 32 bits,
\* in the source), and the largest value it holds
U32_BITS == 2
U32_MAX == 2^U32_BITS - 1
\* identities that call the contract in the registry runs are 1..NumRegistryAddr
NumRegistryAddr == 2
NumLiveAddr == 2
NumEscrowAddr == 2
MaxWindows == 2
MaxBalance == 20
DepositUnit == 10
INACTIVITY_WINDOW == 604800

Addr == 1..NumAddr
\* contribution amounts passed to create_circle (i128 in the source; the
\* amounts of the model stay far from the i128 limits)
Contributions == {10}
\* circle ids passed to the entry points; 0 is never assigned
CircleIds == 0..MaxCircles

\* A circle that has grown to one member below the cap before the run starts:
\* its members are the identities 101..(100 + Prefill)
Prefill == MAX_MEMBERS - 1
BulkAddr(i) == 100 + i
Bulk == {BulkAddr(i) : i \in 1..Prefill}

----------------------------------------------------------------------------
(* Helpers on sequences *)

Range(s) == {s[i] : i \in 1..Len(s)}

\* Vec::is_empty
is_empty(v) == Len(v) = 0

\* Vec::push_back
push_back(v, x) == Append(v, x)

\* the bijections of 1..n onto itself: the outcomes of the host PRNG
PrngOutcomes(n) == {p \in [1..n -> 1..n] : \A i, j \in 1..n : p[i] = p[j] => i = j}

----------------------------------------------------------------------------
(* Storage *)

NoEvents == <<>>

Result(err, line, cs, cnt, evs, ret) ==
    [err |-> err, line |-> line, circles |-> cs, count |-> cnt,
     events |-> evs, ret |-> ret]

\* a panic: storage and events of the invocation are rolled back
Fail(err, line, cs, cnt) == Result(err, line, cs, cnt, NoEvents, 0)

\* read_circle finds a record
has_circle(cs, id) == id \in DOMAIN cs

write_circle(cs, id, circle) ==
    [i \in (DOMAIN cs) \cup {id} |-> IF i = id THEN circle ELSE cs[i]]

\* u32::saturating_add: the sum, or the largest value of the type when the sum
\* does not fit
saturating_add(a, b) == IF a + b > U32_MAX THEN U32_MAX ELSE a + b

next_circle_id(current) == saturating_add(current, 1)

----------------------------------------------------------------------------
(* create_circle *)

new_circle(admin, contribution, is_random_queue) ==
    [admin |-> admin,
     contribution |-> contribution,
     members |-> <<>>,
     is_random_queue |-> is_random_queue,
     payout_queue |-> <<>>,
     has_received_payout |-> <<>>,
     cycle_number |-> 1,
     current_payout_index |-> 0,
     total_volume_distributed |-> 0]

create_circle(cs, cnt, admin, contribution, is_random_queue, auth) ==
    IF ~auth THEN Fail("AuthFailed", 89, cs, cnt)
    ELSE LET id == next_circle_id(cnt)
             circle == new_circle(admin, contribution, is_random_queue)
         IN  Result("Ok", 0, write_circle(cs, id, circle), id, NoEvents, id)

----------------------------------------------------------------------------
(* join_circle *)

\* a membership test that compares with the most recent member only
JoinedLast(members, invoker) == Len(members) > 0 /\ members[Len(members)] = invoker

\* the loop over circle.members that panics with AlreadyJoined
already_joined(members, invoker) == \E i \in 1..Len(members) : members[i] = invoker

\* a cap test that is off by one
MaxMembersExceeded(members) == Len(members) > MAX_MEMBERS

\* member_count >= MAX_MEMBERS
max_members_reached(members) == Len(members) >= MAX_MEMBERS

\* a join that appends the member and forgets the payout flag
AddMemberNoFlag(circle, invoker) ==
    [circle EXCEPT !.members = push_back(circle.members, invoker)]

\* the two push_back calls
add_member(circle, invoker) ==
    [circle EXCEPT !.members = push_back(circle.members, invoker),
                   !.has_received_payout = push_back(circle.has_received_payout, FALSE)]

join_circle(cs, cnt, invoker, circle_id, auth) ==
    IF ~auth THEN Fail("AuthFailed", 108, cs, cnt)
    ELSE IF ~has_circle(cs, circle_id) THEN Fail("CircleNotFound", 67, cs, cnt)
    ELSE LET circle == cs[circle_id] IN
         IF already_joined(circle.members, invoker)
         THEN Fail("AlreadyJoined", 113, cs, cnt)
         ELSE IF max_members_reached(circle.members)
         THEN Fail("MaxMembersReached", 119, cs, cnt)
         ELSE Result("Ok", 0, write_circle(cs, circle_id, add_member(circle, invoker)),
                     cnt, NoEvents, 0)

----------------------------------------------------------------------------
(* process_payout *)

\* the enumerate loop: index (from 1) of the first member equal to recipient,
\* 0 for None
find_member(members, recipient) ==
    LET found == {i \in 1..Len(members) : members[i] = recipient}
    IN  IF found = {} THEN 0
        ELSE CHOOSE i \in found : \A j \in found : i <= j

\* a duplicate-payout guard that never fires
NeverReceived(flags, index) == FALSE

\* has_received_payout.get(index).unwrap_or(false)
payout_received(flags, index) ==
    IF index \in 1..Len(flags) THEN flags[index] ELSE FALSE

\* Vec::set panics on an index out of bounds
set_in_bounds(flags, index) == index \in 1..Len(flags)

\* a payout that assigns the contribution instead of adding it
RecordPayoutAssign(circle, index) ==
    [circle EXCEPT !.has_received_payout = [@ EXCEPT ![index] = TRUE],
                   !.current_payout_index = @ + 1,
                   !.total_volume_distributed = circle.contribution]

\* set(index, true); current_payout_index += 1; total_volume_distributed += contribution
record_payout(circle, index) ==
    [circle EXCEPT !.has_received_payout = [@ EXCEPT ![index] = TRUE],
                   !.current_payout_index = @ + 1,
                   !.total_volume_distributed = @ + circle.contribution]

\* a completion test that looks at the last entry only
LastPaid(flags) == Len(flags) > 0 /\ flags[Len(flags)]

\* has_received_payout.iter().all(|paid| paid)
all_paid(flags) == \A i \in 1..Len(flags) : flags[i]

CycleCompletedEvent(group_id, total) ==
    [topic |-> "CYCLE_COMP", group_id |-> group_id, total_volume_distributed |-> total]

process_payout(cs, cnt, admin, circle_id, recipient, auth) ==
    IF ~auth THEN Fail("AuthFailed", 130, cs, cnt)
    ELSE IF ~has_circle(cs, circle_id) THEN Fail("CircleNotFound", 67, cs, cnt)
    ELSE LET circle == cs[circle_id]
             index == find_member(circle.members, recipient)
         IN
         IF admin # circle.admin THEN Fail("Unauthorized", 134, cs, cnt)
         ELSE IF index = 0 THEN Fail("Unauthorized", 148, cs, cnt)
         ELSE IF payout_received(circle.has_received_payout, index)
         THEN Fail("Unauthorized", 153, cs, cnt)
         ELSE IF ~set_in_bounds(circle.has_received_payout, index)
         THEN Fail("HostError", 156, cs, cnt)
         ELSE LET paid == record_payout(circle, index)
                  evs == IF all_paid(paid.has_received_payout)
                         THEN <<CycleCompletedEvent(circle_id, paid.total_volume_distributed)>>
                         ELSE NoEvents
              IN  Result("Ok", 0, write_circle(cs, circle_id, paid), cnt, evs, 0)

----------------------------------------------------------------------------
(* rollover_group *)

\* a completeness test that looks at the first entry only
FirstNotPaid(flags) == Len(flags) > 0 /\ ~flags[1]

\* the loop over has_received_payout that panics with CycleNotComplete finds
\* an entry that is false
cycle_not_complete(flags) == \E i \in 1..Len(flags) : ~flags[i]

\* a fresh Vec with len entries, all false
cleared_flags(len) == [i \in 1..len |-> FALSE]

\* a rollover that also drops the committed queue
StartNextCycleDropQueue(circle) ==
    [circle EXCEPT !.cycle_number = @ + 1,
                   !.current_payout_index = 0,
                   !.total_volume_distributed = 0,
                   !.payout_queue = <<>>,
                   !.has_received_payout = cleared_flags(Len(circle.has_received_payout))]

\* cycle_number += 1 and the resets
start_next_cycle(circle) ==
    [circle EXCEPT !.cycle_number = @ + 1,
                   !.current_payout_index = 0,
                   !.total_volume_distributed = 0,
                   !.has_received_payout = cleared_flags(Len(circle.has_received_payout))]

GroupRolloverEvent(group_id, new_cycle_number) ==
    [topic |-> "GROUP_ROLL", group_id |-> group_id, new_cycle_number |-> new_cycle_number]

\* a rollover_group that takes a missing record for a record of another admin
RolloverUnknownUnauthorized(cs, cnt, admin, circle_id, auth) ==
    IF ~auth THEN Fail("AuthFailed", 177, cs, cnt)
    ELSE IF ~has_circle(cs, circle_id) THEN Fail("Unauthorized", 181, cs, cnt)
    ELSE LET circle == cs[circle_id] IN
         IF admin # circle.admin THEN Fail("Unauthorized", 181, cs, cnt)
         ELSE IF cycle_not_complete(circle.has_received_payout)
         THEN Fail("CycleNotComplete", 186, cs, cnt)
         ELSE LET next == start_next_cycle(circle)
              IN  Result("Ok", 0, write_circle(cs, circle_id, next), cnt,
                         <<GroupRolloverEvent(circle_id, next.cycle_number)>>, 0)

rollover_group(cs, cnt, admin, circle_id, auth) ==
    IF ~auth THEN Fail("AuthFailed", 177, cs, cnt)
    ELSE IF ~has_circle(cs, circle_id) THEN Fail("CircleNotFound", 67, cs, cnt)
    ELSE LET circle == cs[circle_id] IN
         IF admin # circle.admin THEN Fail("Unauthorized", 181, cs, cnt)
         ELSE IF cycle_not_complete(circle.has_received_payout)
         THEN Fail("CycleNotComplete", 186, cs, cnt)
         ELSE LET next == start_next_cycle(circle)
              IN  Result("Ok", 0, write_circle(cs, circle_id, next), cnt,
                         <<GroupRolloverEvent(circle_id, next.cycle_number)>>, 0)

----------------------------------------------------------------------------
(* finalize_circle *)

\* a finalize that never takes the early return
NeverFinalized(circle) == FALSE

\* !circle.payout_queue.is_empty()
already_finalized(circle) == ~is_empty(circle.payout_queue)

\* env.prng().shuffle: the host reorders the Vec by a permutation of its indexes
shuffle(v, prng) == [i \in 1..Len(v) |-> v[prng[i]]]

\* a random queue whose last slot repeats the first pick
DrawnQueue(members, prng) ==
    [i \in 1..Len(members) |-> members[prng[IF i = Len(members) THEN 1 ELSE i]]]

\* the queue of a random-queue circle: the shuffled clone of members
random_queue(members, prng) == shuffle(members, prng)

\* a sequential queue built back to front
ReversedQueue(members) == [i \in 1..Len(members) |-> members[Len(members) + 1 - i]]

\* the queue of a sequential circle: members.clone()
sequential_queue(members) == members

\* a finalize_circle without the comparison with the stored admin
FinalizeAnyCaller(cs, cnt, admin, circle_id, auth, prng) ==
    IF ~auth THEN Fail("AuthFailed", 212, cs, cnt)
    ELSE IF ~has_circle(cs, circle_id) THEN Fail("CircleNotFound", 67, cs, cnt)
    ELSE LET circle == cs[circle_id] IN
         IF already_finalized(circle)
         THEN Result("Ok", 220, cs, cnt, NoEvents, 0)
         ELSE LET queue == IF circle.is_random_queue
                           THEN random_queue(circle.members, prng)
                           ELSE sequential_queue(circle.members)
              IN  Result("Ok", 0,
                         write_circle(cs, circle_id, [circle EXCEPT !.payout_queue = queue]),
                         cnt, NoEvents, 0)

\* the early return does not write; line 220 tells it from a construction
finalize_circle(cs, cnt, admin, circle_id, auth, prng) ==
    IF ~auth THEN Fail("AuthFailed", 212, cs, cnt)
    ELSE IF ~has_circle(cs, circle_id) THEN Fail("CircleNotFound", 67, cs, cnt)
    ELSE LET circle == cs[circle_id] IN
         IF admin # circle.admin THEN Fail("Unauthorized", 216, cs, cnt)
         ELSE IF already_finalized(circle)
         THEN Result("Ok", 220, cs, cnt, NoEvents, 0)
         ELSE LET queue == IF circle.is_random_queue
                           THEN random_queue(circle.members, prng)
                           ELSE sequential_queue(circle.members)
              IN  Result("Ok", 0,
                         write_circle(cs, circle_id, [circle EXCEPT !.payout_queue = queue]),
                         cnt, NoEvents, 0)

\* what the host PRNG can answer to the call finalize_circle makes, if it makes one
prng_outcomes(cs, circle_id) ==
    IF has_circle(cs, circle_id) /\ cs[circle_id].is_random_queue
    THEN PrngOutcomes(Len(cs[circle_id].members))
    ELSE {<<>>}

----------------------------------------------------------------------------
(* The escrow ledger (spec 4.2). A ledger operation takes the ledger
   [admin, last_active, balance, now] and the caller's inputs and returns
   [err, ledger, moved]: moved is the amount the external transfer carried
   out of custody. admin = 0 stands for the uninitialized ledger, whose reads
   default to zero. *)

EscrowAddr == 1..NumEscrowAddr
DepositAmounts == {0, DepositUnit}

LedgerUninitialized ==
    [admin |-> 0, last_active |-> 0, balance |-> [u \in EscrowAddr |-> 0],
     now |-> 0, out |-> [op |-> "none", user |-> 0, err |-> "Ok", moved |-> 0]]

LedgerOk(l, moved) == [err |-> "Ok", ledger |-> l, moved |-> moved]
LedgerFail(l, err) == [err |-> err, ledger |-> l, moved |-> 0]

\* initialize(admin): records admin, stamps lastActiveTimestamp = now
initialize(l, admin, auth) ==
    IF ~auth THEN LedgerFail(l, "Unauthorized")
    ELSE LedgerOk([l EXCEPT !.admin = admin, !.last_active = l.now], 0)

\* admin_action(): the stored admin's heartbeat, lastActiveTimestamp = now
admin_action(l, caller, auth) ==
    IF l.admin = 0 \/ caller # l.admin \/ ~auth THEN LedgerFail(l, "Unauthorized")
    ELSE LedgerOk([l EXCEPT !.last_active = l.now], 0)

\* deposit(user, amount): after the transfer into custody, balance[user] += amount
deposit(l, user, amount, auth, transfer_ok) ==
    IF ~auth THEN LedgerFail(l, "Unauthorized")
    ELSE IF amount <= 0 \/ ~transfer_ok THEN LedgerFail(l, "TransferFailed")
    ELSE LedgerOk([l EXCEPT !.balance[user] = @ + amount], 0)

\* an emergency exit opened one clock reading early
WindowReached(now, last_active) == now >= last_active + INACTIVITY_WINDOW

\* now > lastActiveTimestamp + INACTIVITY_WINDOW
window_elapsed(now, last_active) == now > last_active + INACTIVITY_WINDOW

\* emergency_withdraw(user): the full balance back to user once the window elapsed
emergency_withdraw(l, user, auth) ==
    IF ~auth THEN LedgerFail(l, "Unauthorized")
    ELSE IF ~window_elapsed(l.now, l.last_active) THEN LedgerFail(l, "NotYetEligible")
    ELSE IF l.balance[user] > 0
         THEN LedgerOk([l EXCEPT !.balance[user] = 0], l.balance[user])
         ELSE LedgerOk(l, 0)

----------------------------------------------------------------------------
(* The state machine *)

\* the invocation ends: its result becomes the stored state
Invoke(op, id, r) ==
    /\ circles' = r.circles
    /\ circle_count' = r.count
    /\ events' = r.events
    /\ last' = [op |-> op, id |-> id, err |-> r.err, line |-> r.line]
    /\ UNCHANGED ledger

\* the circle stored after create_circle(1, 10, false) and the joins of
\* 101, 102, .. (100 + Prefill), in this order
GrownCircle ==
    [new_circle(1, 10, FALSE) EXCEPT
        !.members = [i \in 1..Prefill |-> BulkAddr(i)],
        !.has_received_payout = [i \in 1..Prefill |-> FALSE]]

InitFresh ==
    /\ circles = <<>>
    /\ circle_count = 0
    /\ events = NoEvents
    /\ last = [op |-> "none", id |-> 0, err |-> "Ok", line |-> 0]
    /\ ledger = LedgerUninitialized

InitGrown ==
    /\ circles = write_circle(<<>>, 1, GrownCircle)
    /\ circle_count = 1
    /\ events = NoEvents
    /\ last = [op |-> "join_circle", id |-> 1, err |-> "Ok", line |-> 0]
    /\ ledger = LedgerUninitialized

Init == InitFresh \/ InitGrown

CreateCircle ==
    \E admin \in Addr, contribution \in Contributions, is_random_queue \in BOOLEAN,
       auth \in BOOLEAN :
        /\ circle_count < MaxCircles
        /\ LET r == create_circle(circles, circle_count, admin, contribution,
                                  is_random_queue, auth)
           IN  Invoke("create_circle", r.ret, r)

JoinCircle ==
    \E invoker \in Addr, circle_id \in CircleIds, auth \in BOOLEAN :
        Invoke("join_circle", circle_id,
               join_circle(circles, circle_count, invoker, circle_id, auth))

\* the member of the grown circle that is paid next: the first of 101.. not yet paid
next_bulk(cs, circle_id) ==
    IF has_circle(cs, circle_id)
    THEN LET c == cs[circle_id]
             unpaid == {i \in 1..Len(c.members) :
                           c.members[i] \in Bulk /\ ~c.has_received_payout[i]}
         IN  IF unpaid = {} THEN {}
             ELSE {c.members[CHOOSE i \in unpaid : \A j \in unpaid : i <= j]}
    ELSE {}

ProcessPayout ==
    \E admin \in Addr, circle_id \in CircleIds, auth \in BOOLEAN :
        \E recipient \in Addr \cup next_bulk(circles, circle_id) :
            Invoke("process_payout", circle_id,
                   process_payout(circles, circle_count, admin, circle_id, recipient, auth))

RolloverGroup ==
    \E admin \in Addr, circle_id \in CircleIds, auth \in BOOLEAN :
        /\ has_circle(circles, circle_id) => circles[circle_id].cycle_number < MaxCycle
        /\ Invoke("rollover_group", circle_id,
                  rollover_group(circles, circle_count, admin, circle_id, auth))

FinalizeCircle ==
    \E admin \in Addr, circle_id \in CircleIds, auth \in BOOLEAN :
        \E prng \in prng_outcomes(circles, circle_id) :
            Invoke("finalize_circle", circle_id,
                   finalize_circle(circles, circle_count, admin, circle_id, auth, prng))

Next ==
    \/ CreateCircle
    \/ JoinCircle
    \/ ProcessPayout
    \/ RolloverGroup
    \/ FinalizeCircle

Spec == Init /\ [][Next]_vars

----------------------------------------------------------------------------
(* Properties *)

Ids == DOMAIN circles

Paid(c) == {i \in 1..Len(c.has_received_payout) : c.has_received_payout[i]}

\* the most recent invocation was op and ran to its end
Done(op) == last.op = op /\ last.err = "Ok"
DoneNext(op) == last'.op = op /\ last'.err = "Ok"

\* C1: in every reachable state, for every stored circle, has_received_payout
\* is as long as members.
C1_FlagsAlignedWithMembers ==
    \A id \in Ids : Len(circles[id].has_received_payout) = Len(circles[id].members)

\* a join that succeeded in the second cycle of a finalized circle with a paid member
C1_Witness ==
    /\ Done("join_circle")
    /\ last.id \in Ids
    /\ LET c == circles[last.id] IN
        /\ c.cycle_number = 2
        /\ Len(c.members) >= 2
        /\ Paid(c) # {}
        /\ ~is_empty(c.payout_queue)

\* C2: rollover_group by the stored admin fails with CycleNotComplete when some
\* has_received_payout entry is false and leaves the store as it was; a
\* rollover that succeeds started with every entry true and ends with every
\* entry false, cycle_number one higher, current_payout_index 0 and
\* total_volume_distributed 0.
C2_RolloverCall ==
    \A id \in Ids :
        LET c == circles[id]
            r == rollover_group(circles, circle_count, c.admin, id, TRUE)
        IN  /\ (\E i \in 1..Len(c.has_received_payout) : ~c.has_received_payout[i])
                  => (r.err = "CycleNotComplete" /\ r.circles = circles)
            /\ r.err = "Ok"
                  => (\A i \in 1..Len(c.has_received_payout) : c.has_received_payout[i])

C2_RolloverStep ==
    DoneNext("rollover_group") =>
        LET old == circles[last'.id]
            new == circles'[last'.id]
        IN  /\ \A i \in 1..Len(old.has_received_payout) : old.has_received_payout[i]
            /\ Len(new.has_received_payout) = Len(old.has_received_payout)
            /\ \A i \in 1..Len(new.has_received_payout) : ~new.has_received_payout[i]
            /\ new.cycle_number = old.cycle_number + 1
            /\ new.current_payout_index = 0
            /\ new.total_volume_distributed = 0

\* C2: both parts, in every reachable state and at every step: the call of the
\* stored admin answers as stated and a rollover that succeeds resets the cycle.
C2_Rollover == []C2_RolloverCall /\ [][C2_RolloverStep]_vars

\* a rollover that succeeded on a circle of at least two members
C2_Witness ==
    /\ Done("rollover_group")
    /\ Len(circles[last.id].members) >= 2
    /\ circles[last.id].cycle_number = 2

\* C3: rollover_group never succeeds on a circle whose payout_queue is empty
\* (rollover_group leaves payout_queue as it found it).
C3_RolloverNeedsQueue ==
    Done("rollover_group") => ~is_empty(circles[last.id].payout_queue)

\* C4: a process_payout by the stored admin for a recipient whose entry is
\* true fails and changes nothing; a successful process_payout turns exactly
\* one entry, which was false, to true; an entry that is true becomes false
\* only by a successful rollover_group of that circle.
C4_DuplicateCall ==
    \A id \in Ids :
        LET c == circles[id] IN
        \A i \in Paid(c) :
            LET r == process_payout(circles, circle_count, c.admin, id, c.members[i], TRUE)
            IN  r.err # "Ok" /\ r.circles = circles /\ r.events = NoEvents

C4_PayoutStep ==
    \A id \in Ids :
        LET old == Paid(circles[id])
            new == Paid(circles'[id])
        IN  /\ ~(old \subseteq new) => (DoneNext("rollover_group") /\ last'.id = id)
            /\ (DoneNext("process_payout") /\ last'.id = id)
                => (\E i \in new : i \notin old /\ new = old \cup {i})

\* C4: both parts, in every reachable state and at every step: at most one
\* successful process_payout per member between two rollovers.
C4_OnePayoutPerCycle == []C4_DuplicateCall /\ [][C4_PayoutStep]_vars

\* the duplicate-payout guard stopped a payout in a circle that has an unpaid member
C4_Witness ==
    /\ last.op = "process_payout"
    /\ last.line = 153
    /\ Paid(circles[last.id]) # {}
    /\ Cardinality(Paid(circles[last.id])) < Len(circles[last.id].members)

\* C5: in every reachable state of a circle, current_payout_index is the number
\* of true entries of has_received_payout and total_volume_distributed is
\* current_payout_index * contribution.
C5_PayoutAccounting ==
    \A id \in Ids :
        LET c == circles[id] IN
        /\ c.current_payout_index = Cardinality(Paid(c))
        /\ c.total_volume_distributed = c.current_payout_index * c.contribution

\* two payouts with a join between them: the third member joined after the
\* first payout and before the second
C5_Witness ==
    /\ Done("process_payout")
    /\ LET c == circles[last.id] IN
        /\ Len(c.members) = 3
        /\ c.current_payout_index = 2
        /\ Len(c.payout_queue) = 1
        /\ ~c.has_received_payout[3]

\* C6: no identity is twice in members, and a join_circle by an identity that
\* is in members fails with AlreadyJoined and leaves the store as it was.
C6_NoDuplicateMembers ==
    \A id \in Ids :
        LET c == circles[id] IN
        /\ \A i, j \in 1..Len(c.members) : c.members[i] = c.members[j] => i = j
        /\ \A i \in 1..Len(c.members) :
            LET r == join_circle(circles, circle_count, c.members[i], id, TRUE)
            IN  r.err = "AlreadyJoined" /\ r.circles = circles /\ r.count = circle_count

\* AlreadyJoined stopped a join after a rollover, in a finalized circle, for a
\* member that is not the most recent one
C6_Witness ==
    /\ last.op = "join_circle"
    /\ last.err = "AlreadyJoined"
    /\ LET c == circles[last.id] IN
        /\ c.cycle_number = 2
        /\ ~is_empty(c.payout_queue)
        /\ Len(c.members) >= 2

\* C7: members never holds more than MAX_MEMBERS identities: a join_circle by
\* an identity that is not a member fails with MaxMembersReached and changes
\* nothing when members is at the cap, and succeeds below the cap.
C7_MemberCap ==
    \A id \in Ids :
        LET c == circles[id] IN
        /\ Len(c.members) <= MAX_MEMBERS
        /\ \A a \in Addr \ Range(c.members) :
            LET r == join_circle(circles, circle_count, a, id, TRUE) IN
            /\ Len(c.members) = MAX_MEMBERS
                => (r.err = "MaxMembersReached" /\ r.circles = circles)
            /\ Len(c.members) < MAX_MEMBERS
                => (r.err = "Ok" /\ Len(r.circles[id].members) = Len(c.members) + 1)

\* MaxMembersReached stopped a join on a circle that holds MAX_MEMBERS members
C7_Witness ==
    /\ last.op = "join_circle"
    /\ last.err = "MaxMembersReached"
    /\ Len(circles[last.id].members) = MAX_MEMBERS

\* C8: once payout_queue is non-empty, a finalize_circle by the stored admin
\* returns successfully and leaves the store as it was, whatever the PRNG
\* would answer.
C8_FinalizeCall ==
    \A id \in Ids :
        LET c == circles[id] IN
        ~is_empty(c.payout_queue) =>
            \A prng \in prng_outcomes(circles, id) :
                LET r == finalize_circle(circles, circle_count, c.admin, id, TRUE, prng)
                IN  /\ r.err = "Ok"
                    /\ r.circles = circles
                    /\ r.count = circle_count
                    /\ r.events = NoEvents

C8_FinalizeStep ==
    (DoneNext("finalize_circle") /\ last'.id \in Ids
        /\ ~is_empty(circles[last'.id].payout_queue))
            => (circles' = circles /\ circle_count' = circle_count)

\* C8: both parts, in every reachable state and at every step: finalize_circle
\* is idempotent once payout_queue is non-empty.
C8_FinalizeIdempotent == []C8_FinalizeCall /\ [][C8_FinalizeStep]_vars

\* a second finalize_circle returned early on a random-queue circle that a
\* member joined after the queue was built
C8_Witness ==
    /\ Done("finalize_circle")
    /\ last.line = 220
    /\ LET c == circles[last.id] IN
        /\ c.is_random_queue
        /\ Len(c.payout_queue) >= 2
        /\ Len(c.members) > Len(c.payout_queue)

\* the most recent invocation was a finalize_circle that built the queue
Built == Done("finalize_circle") /\ last.line = 0

\* C9: a finalize_circle that builds the queue of a circle with
\* is_random_queue = false leaves payout_queue equal to members, index by index.
C9_SequentialQueue ==
    (Built /\ ~circles[last.id].is_random_queue) =>
        LET c == circles[last.id] IN
        /\ Len(c.payout_queue) = Len(c.members)
        /\ \A i \in 1..Len(c.members) : c.payout_queue[i] = c.members[i]

\* the queue of a sequential circle was built from three members that did not
\* join in the order of their identities
C9_Witness ==
    /\ Built
    /\ LET c == circles[last.id] IN
        /\ ~c.is_random_queue
        /\ Len(c.members) = 3
        /\ c.members[1] > c.members[2]

\* C10: a finalize_circle that builds the queue of a circle with
\* is_random_queue = true leaves payout_queue a permutation of members: as
\* long, with every member at exactly one index and no other identity.
C10_RandomQueueIsPermutation ==
    (Built /\ circles[last.id].is_random_queue) =>
        LET c == circles[last.id] IN
        /\ Len(c.payout_queue) = Len(c.members)
        /\ Range(c.payout_queue) = Range(c.members)
        /\ \A m \in Range(c.members) :
            Cardinality({i \in 1..Len(c.payout_queue) : c.payout_queue[i] = m}) = 1

\* the queue of a random circle was built from three members in an order that
\* is not the join order
C10_Witness ==
    /\ Built
    /\ LET c == circles[last.id] IN
        /\ c.is_random_queue
        /\ Len(c.members) = 3
        /\ c.payout_queue # c.members

\* q holds exactly the identities of m, each at exactly one index
IsPermutation(q, m) ==
    /\ Len(q) = Len(m)
    /\ Range(q) = Range(m)
    /\ \A i, j \in 1..Len(q) : q[i] = q[j] => i = j

\* C11: in every reachable state payout_queue is empty or holds exactly the
\* identities in members, each exactly once.
C11_QueueCoversMembers ==
    \A id \in Ids :
        \/ is_empty(circles[id].payout_queue)
        \/ IsPermutation(circles[id].payout_queue, circles[id].members)

\* C12: after a successful rollover_group on a circle with is_random_queue =
\* true payout_queue is a permutation of the current members; on a circle with
\* is_random_queue = false rollover_group leaves payout_queue as it was.
C12_RolloverQueue ==
    (Done("rollover_group") /\ circles[last.id].is_random_queue)
        => IsPermutation(circles[last.id].payout_queue, circles[last.id].members)

C12_RolloverQueueStep ==
    (DoneNext("rollover_group") /\ ~circles[last'.id].is_random_queue)
        => circles'[last'.id].payout_queue = circles[last'.id].payout_queue

\* C12: both parts, in every reachable state and at every step.
C12_RolloverRebuildsQueue == []C12_RolloverQueue /\ [][C12_RolloverQueueStep]_vars

\* C13: for a caller other than the stored admin, finalize_circle,
\* process_payout and rollover_group fail and leave the store as it was: with
\* Unauthorized when the caller's own authorization succeeds, in require_auth
\* when it does not; process_payout by the stored admin fails with
\* Unauthorized for a recipient that is not in members.
C13_AdminOnly ==
    \A id \in Ids :
        LET c == circles[id] IN
        /\ \A caller \in Addr \ {c.admin}, auth \in BOOLEAN :
            LET refused(r) ==
                    /\ r.err = (IF auth THEN "Unauthorized" ELSE "AuthFailed")
                    /\ r.circles = circles
                    /\ r.count = circle_count
                    /\ r.events = NoEvents
            IN  /\ refused(rollover_group(circles, circle_count, caller, id, auth))
                /\ \A prng \in prng_outcomes(circles, id) :
                    refused(finalize_circle(circles, circle_count, caller, id, auth, prng))
                /\ \A recipient \in Addr \cup next_bulk(circles, id) :
                    refused(process_payout(circles, circle_count, caller, id, recipient, auth))
        /\ \A recipient \in Addr \ Range(c.members) :
            LET r == process_payout(circles, circle_count, c.admin, id, recipient, TRUE)
            IN  r.err = "Unauthorized" /\ r.circles = circles /\ r.events = NoEvents

\* the admin test stopped a rollover_group that the stored admin could have made:
\* the circle is finalized and every member is paid
C13_Witness ==
    /\ last.op = "rollover_group"
    /\ last.line = 181
    /\ LET c == circles[last.id] IN
        /\ ~is_empty(c.payout_queue)
        /\ Len(c.members) >= 2
        /\ Paid(c) = 1..Len(c.members)

\* the cycle-completed events among those of the most recent invocation
CycleCompleted == {i \in 1..Len(events) : events[i].topic = "CYCLE_COMP"}

\* C16: a successful process_payout publishes a cycle-completed event exactly
\* when every has_received_payout entry is true after it, once, with the
\* circle's id and the total_volume_distributed it stored; no other invocation
\* publishes one.
C16_CycleCompletedEvent ==
    IF Done("process_payout")
    THEN LET c == circles[last.id] IN
         /\ (CycleCompleted # {}) <=> (Paid(c) = 1..Len(c.has_received_payout))
         /\ Cardinality(CycleCompleted) <= 1
         /\ \A i \in CycleCompleted :
                /\ events[i].group_id = last.id
                /\ events[i].total_volume_distributed = c.total_volume_distributed
    ELSE CycleCompleted = {}

\* the payout that completed the cycle of a circle of three members
C16_Witness ==
    /\ Done("process_payout")
    /\ CycleCompleted # {}
    /\ Len(circles[last.id].members) = 3
    /\ circles[last.id].total_volume_distributed = 3 * circles[last.id].contribution

\* a failed invocation leaves the stored circles and the counter as they were
\* and publishes nothing
AllOrNothingStep ==
    last'.err # "Ok" =>
        (circles' = circles /\ circle_count' = circle_count /\ events' = NoEvents)

\* the most recent invocation named a circle id that is not stored
OnUnknownId == last.op \notin {"none", "create_circle"} /\ last.id \notin Ids

\* C14 as claimed: a failed invocation changes nothing and publishes nothing,
\* and an invocation on an unknown circle id always fails with CircleNotFound.
C14_UnknownIdAlwaysNotFound ==
    /\ [](OnUnknownId => last.err = "CircleNotFound")
    /\ [][AllOrNothingStep]_vars

\* every entry point, called on an unknown id by a caller whose authorization
\* succeeds, fails with CircleNotFound and changes nothing
C14_UnknownIdCall ==
    \A id \in CircleIds \ Ids, caller \in Addr :
        LET refused(r) ==
                /\ r.err = "CircleNotFound"
                /\ r.circles = circles
                /\ r.count = circle_count
                /\ r.events = NoEvents
        IN  /\ refused(join_circle(circles, circle_count, caller, id, TRUE))
            /\ refused(rollover_group(circles, circle_count, caller, id, TRUE))
            /\ refused(finalize_circle(circles, circle_count, caller, id, TRUE, <<>>))
            /\ \A recipient \in Addr :
                refused(process_payout(circles, circle_count, caller, id, recipient, TRUE))

\* C14, amended: a failed invocation changes nothing and publishes nothing; an
\* invocation on an unknown circle id always fails, with CircleNotFound when
\* the caller's authorization succeeds and in require_auth when it does not.
C14_AllOrNothing ==
    /\ [](OnUnknownId => last.err \in {"CircleNotFound", "AuthFailed"})
    /\ []C14_UnknownIdCall
    /\ [][AllOrNothingStep]_vars

\* CircleNotFound stopped an invocation while a circle with a paid member is stored
C14_Witness ==
    /\ OnUnknownId
    /\ last.err = "CircleNotFound"
    /\ \E id \in Ids : Paid(circles[id]) # {} /\ ~is_empty(circles[id].payout_queue)

----------------------------------------------------------------------------
(* The registry up to the saturation of its counter: create_circle is called
   without a bound on CircleCount, by few identities, and join_circle fills
   the records *)

RegistryAddr == 1..NumRegistryAddr
RegistryIds == 0..U32_MAX

RegistryCreate ==
    \E admin \in RegistryAddr, contribution \in Contributions,
       is_random_queue \in BOOLEAN, auth \in BOOLEAN :
        LET r == create_circle(circles, circle_count, admin, contribution,
                               is_random_queue, auth)
        IN  Invoke("create_circle", r.ret, r)

RegistryJoin ==
    \E invoker \in RegistryAddr, circle_id \in RegistryIds, auth \in BOOLEAN :
        Invoke("join_circle", circle_id,
               join_circle(circles, circle_count, invoker, circle_id, auth))

NextRegistry ==
    \/ RegistryCreate
    \/ RegistryJoin

SpecRegistry == InitFresh /\ [][NextRegistry]_vars

\* C15: every successful create_circle returns an id greater than every id
\* returned before and leaves the records stored before as they were.
C15_CreateStep ==
    DoneNext("create_circle") =>
        /\ \A id \in Ids : last'.id > id
        /\ \A id \in Ids : circles'[id] = circles[id]

C15_FreshIds == [][C15_CreateStep]_vars

\* s is t with one element appended
AppendsOne(s, t) == Len(s) = Len(t) + 1 /\ SubSeq(s, 1, Len(t)) = t

\* C20: a stored record stays stored with its admin, contribution and
\* is_random_queue; members changes only by a successful join_circle on that
\* id, which appends one identity; cycle_number changes only by a successful
\* rollover_group on that id, by one; a record changes only by an invocation
\* of join_circle, process_payout, rollover_group or finalize_circle on its id.
C20_FrameStep ==
    \A id \in Ids :
        /\ id \in DOMAIN circles'
        /\ LET old == circles[id]
               new == circles'[id]
           IN  /\ new.admin = old.admin
               /\ new.contribution = old.contribution
               /\ new.is_random_queue = old.is_random_queue
               /\ new.members # old.members
                    => /\ DoneNext("join_circle") /\ last'.id = id
                       /\ AppendsOne(new.members, old.members)
               /\ new.cycle_number # old.cycle_number
                    => /\ DoneNext("rollover_group") /\ last'.id = id
                       /\ new.cycle_number = old.cycle_number + 1
               /\ new # old
                    => /\ last'.id = id
                       /\ last'.op \in {"join_circle", "process_payout",
                                        "rollover_group", "finalize_circle"}

\* C20: the frame conditions at every step, and cycle_number is 1 in the
\* record a successful create_circle stored.
C20_Frame ==
    /\ [](Done("create_circle") => circles[last.id].cycle_number = 1)
    /\ [][C20_FrameStep]_vars

----------------------------------------------------------------------------
(* The cycle of a circle *)

AllTrue(c) == Paid(c) = 1..Len(c.has_received_payout)

\* C19: once every has_received_payout entry of a circle with members is true,
\* the entries stay all true until a successful rollover_group of that circle,
\* so that no second process_payout completes, and publishes the
\* cycle-completed event of, the same cycle_number.
C19_CompleteStep ==
    \A id \in Ids :
        (Len(circles[id].members) > 0 /\ AllTrue(circles[id]))
            => \/ AllTrue(circles'[id])
               \/ DoneNext("rollover_group") /\ last'.id = id

C19_CompletedOncePerCycle == [][C19_CompleteStep]_vars

\* the stored admin pays a member that is not yet paid in this cycle
AdminPays(id) ==
    /\ has_circle(circles, id)
    /\ \E recipient \in Addr \cup next_bulk(circles, id) :
        /\ \E i \in 1..Len(circles[id].members) :
            circles[id].members[i] = recipient /\ ~circles[id].has_received_payout[i]
        /\ Invoke("process_payout", id,
                  process_payout(circles, circle_count, circles[id].admin, id,
                                 recipient, TRUE))

\* the stored admin rolls a complete cycle over
AdminRolls(id) ==
    /\ has_circle(circles, id)
    /\ circles[id].cycle_number < MaxCycle
    /\ ~cycle_not_complete(circles[id].has_received_payout)
    /\ Invoke("rollover_group", id,
              rollover_group(circles, circle_count, circles[id].admin, id, TRUE))

\* the admin of every circle keeps paying unpaid members and rolling complete
\* cycles over
AdminFairness ==
    \A id \in 1..MaxCircles : WF_vars(AdminPays(id)) /\ WF_vars(AdminRolls(id))

\* the entry points called by a smaller population, for the runs under fairness
LiveAddr == 1..NumLiveAddr

LiveCreateCircle ==
    \E admin \in LiveAddr, contribution \in Contributions, is_random_queue \in BOOLEAN,
       auth \in BOOLEAN :
        /\ circle_count < MaxCircles
        /\ LET r == create_circle(circles, circle_count, admin, contribution,
                                  is_random_queue, auth)
           IN  Invoke("create_circle", r.ret, r)

LiveJoinCircle ==
    \E invoker \in LiveAddr, circle_id \in CircleIds, auth \in BOOLEAN :
        Invoke("join_circle", circle_id,
               join_circle(circles, circle_count, invoker, circle_id, auth))

LiveProcessPayout ==
    \E admin \in LiveAddr, circle_id \in CircleIds, recipient \in LiveAddr,
       auth \in BOOLEAN :
        Invoke("process_payout", circle_id,
               process_payout(circles, circle_count, admin, circle_id, recipient, auth))

LiveRolloverGroup ==
    \E admin \in LiveAddr, circle_id \in CircleIds, auth \in BOOLEAN :
        /\ has_circle(circles, circle_id) => circles[circle_id].cycle_number < MaxCycle
        /\ Invoke("rollover_group", circle_id,
                  rollover_group(circles, circle_count, admin, circle_id, auth))

LiveFinalizeCircle ==
    \E admin \in LiveAddr, circle_id \in CircleIds, auth \in BOOLEAN :
        \E prng \in prng_outcomes(circles, circle_id) :
            Invoke("finalize_circle", circle_id,
                   finalize_circle(circles, circle_count, admin, circle_id, auth, prng))

NextLive ==
    \/ LiveCreateCircle
    \/ LiveJoinCircle
    \/ LiveProcessPayout
    \/ LiveRolloverGroup
    \/ LiveFinalizeCircle

SpecLive == InitFresh /\ [][NextLive]_vars /\ AdminFairness

Phase(c) ==
    IF is_empty(c.payout_queue) THEN "Open"
    ELSE IF AllTrue(c) THEN "CycleComplete"
    ELSE "Finalized"

\* the moves of the lifecycle as the spec draws it
DrawnMoves ==
    {<<"Open", "Finalized">>, <<"Finalized", "CycleComplete">>,
     <<"CycleComplete", "Finalized">>}

\* and the move of a finalize_circle that comes after every member was paid
CodeMoves == DrawnMoves \cup {<<"Open", "CycleComplete">>}

MovesWithin(moves) ==
    \A id \in Ids :
        \/ Phase(circles'[id]) = Phase(circles[id])
        \/ <<Phase(circles[id]), Phase(circles'[id])>> \in moves

QueueStaysCommitted ==
    \A id \in Ids :
        ~is_empty(circles[id].payout_queue) => ~is_empty(circles'[id].payout_queue)

\* under the admin's fairness a finalized circle in cycle n < MaxCycle reaches
\* the state where every entry is true, and the rollover into cycle n + 1
CycleProgress ==
    \A id \in 1..MaxCircles, n \in 1..(MaxCycle - 1) :
        LET InCycle == /\ has_circle(circles, id)
                       /\ ~is_empty(circles[id].payout_queue)
                       /\ circles[id].cycle_number = n
        IN  /\ InCycle ~> (has_circle(circles, id) /\ circles[id].cycle_number = n
                            /\ AllTrue(circles[id]))
            /\ InCycle ~> (has_circle(circles, id) /\ circles[id].cycle_number = n + 1)

\* C18 as claimed: cycle progress, the lifecycle moves only Open -> Finalized ->
\* CycleComplete -> Finalized, and a non-empty payout_queue never becomes empty.
C18_DrawnLifecycle ==
    /\ [][MovesWithin(DrawnMoves)]_vars
    /\ [][QueueStaysCommitted]_vars
    /\ CycleProgress

\* C18, amended: cycle progress; the lifecycle moves only Open -> Finalized,
\* Open -> CycleComplete, Finalized -> CycleComplete and CycleComplete ->
\* Finalized; a non-empty payout_queue never becomes empty.
C18_CycleProgress ==
    /\ [][MovesWithin(CodeMoves)]_vars
    /\ [][QueueStaysCommitted]_vars
    /\ CycleProgress

\* a rollover succeeded on a finalized circle of at least two members
C18_Witness ==
    /\ Done("rollover_group")
    /\ LET c == circles[last.id] IN
        /\ ~is_empty(c.payout_queue)
        /\ Len(c.members) >= 2
        /\ c.cycle_number = 2
        /\ Phase(c) = "Finalized"

----------------------------------------------------------------------------
(* The escrow ledger as a state machine: its four operations and the clock *)

circle_vars == <<circles, circle_count, events, last>>

\* the ledger operation ends: its result becomes the stored ledger
LedgerInvoke(op, user, r) ==
    /\ ledger' = [r.ledger EXCEPT !.out = [op |-> op, user |-> user,
                                           err |-> r.err, moved |-> r.moved]]
    /\ UNCHANGED circle_vars

MaxNow == MaxWindows * (INACTIVITY_WINDOW + 1)

\* the clock readings around the end of the running window
clock_readings(l) ==
    {l.last_active + INACTIVITY_WINDOW - 1, l.last_active + INACTIVITY_WINDOW,
     l.last_active + INACTIVITY_WINDOW + 1}

ClockAdvances ==
    \E t \in clock_readings(ledger) :
        /\ t > ledger.now
        /\ t <= MaxNow
        /\ ledger' = [ledger EXCEPT !.now = t]
        /\ UNCHANGED circle_vars

Initialize ==
    \E admin \in EscrowAddr, auth \in BOOLEAN :
        LedgerInvoke("initialize", admin, initialize(ledger, admin, auth))

AdminAction ==
    \E caller \in EscrowAddr, auth \in BOOLEAN :
        LedgerInvoke("admin_action", caller, admin_action(ledger, caller, auth))

Deposit ==
    \E user \in EscrowAddr, amount \in DepositAmounts, auth \in BOOLEAN,
       transfer_ok \in BOOLEAN :
        /\ ledger.balance[user] + amount <= MaxBalance
        /\ LedgerInvoke("deposit", user,
                        deposit(ledger, user, amount, auth, transfer_ok))

EmergencyWithdraw ==
    \E user \in EscrowAddr, auth \in BOOLEAN :
        LedgerInvoke("emergency_withdraw", user, emergency_withdraw(ledger, user, auth))

NextEscrow ==
    \/ ClockAdvances
    \/ Initialize
    \/ AdminAction
    \/ Deposit
    \/ EmergencyWithdraw

SpecEscrow == InitFresh /\ [][NextEscrow]_vars

\* what emergency_withdraw answers to every depositor in the current state
C17_WithdrawCall ==
    \A user \in EscrowAddr :
        LET r == emergency_withdraw(ledger, user, TRUE)
            again == emergency_withdraw(r.ledger, user, TRUE)
        IN  IF ledger.now <= ledger.last_active + INACTIVITY_WINDOW
            THEN r.err = "NotYetEligible" /\ r.moved = 0
                 /\ r.ledger.balance = ledger.balance
            ELSE /\ r.err = "Ok"
                 /\ r.moved = ledger.balance[user]
                 /\ r.ledger.balance = [ledger.balance EXCEPT ![user] = 0]
                 /\ again.err = "Ok" /\ again.moved = 0 /\ again.ledger = r.ledger

C17_LedgerStep ==
    /\ \A user \in EscrowAddr :
        ledger'.balance[user] < ledger.balance[user]
            => /\ ledger.now > ledger.last_active + INACTIVITY_WINDOW
               /\ ledger'.out = [op |-> "emergency_withdraw", user |-> user,
                                 err |-> "Ok", moved |-> ledger.balance[user]]
               /\ ledger'.balance[user] = 0
    /\ (ledger'.out.op = "emergency_withdraw" /\ ledger'.out.err # "Ok")
            => ledger'.balance = ledger.balance
    /\ ledger'.last_active # ledger.last_active
            => /\ ledger'.out.op \in {"initialize", "admin_action"}
               /\ ledger'.out.err = "Ok"
               /\ ledger'.last_active = ledger.now
    /\ ledger'.balance # ledger.balance => ledger'.last_active = ledger.last_active

\* C17: emergency_withdraw moves funds out only when now > lastActiveTimestamp +
\* 7 days: up to that reading it fails and no balance changes, strictly after
\* it transfers the caller's full balance and zeroes it, and a second call on
\* the zero balance succeeds moving nothing; a deposit never changes
\* lastActiveTimestamp, only a successful initialize or admin_action does.
C17_EmergencyExit == []C17_WithdrawCall /\ [][C17_LedgerStep]_vars

\* a depositor withdrew their deposit at the first reading after the window of
\* an admin heartbeat, a later deposit of another user notwithstanding
C17_Witness ==
    /\ ledger.out.op = "emergency_withdraw"
    /\ ledger.out.err = "Ok"
    /\ ledger.out.moved > 0
    /\ ledger.last_active > 0
    /\ ledger.now = ledger.last_active + INACTIVITY_WINDOW + 1
    /\ \E u \in EscrowAddr : ledger.balance[u] > 0

====
